---- MODULE Spec2Model ----
(***************************************************************************)
(* A model of AlaskaPromoFinder (alaska_promo_finder.py): the generation   *)
(* of candidate promo codes, the check of one promo URL (fetch, marker     *)
(* test, organization extraction, expiration detection), the scan loop     *)
(* with its periodic and final saves, the JSON results file, and the       *)
(* listing of the store.                                                   *)
(*                                                                         *)
(* Strings whose characters matter (codes, formatted dates) are sequences  *)
(* of one-character strings; Python's None and the other falsy values the  *)
(* code tests with "if x:" are the empty value of the matching type.       *)
(***************************************************************************)
EXTENDS Integers, Sequences, FiniteSets, TLC

VARIABLES
    results,        \* self.results: the dict code -> record, in insertion order
    disk,           \* the results file
    pc,             \* "idle" | "scanning" | "dead", or an exception left
                    \* search_promos ("raised") or list_all_promos ("list_raised")
    codes,          \* search_promos: the code list of the running scan
    i,              \* search_promos: number of codes of the list already passed
    found_count,    \* search_promos: new discoveries of the running scan
    pending,        \* the search_promos calls the driver has still to make
    hits,           \* history: codes whose fetch returned a promo page, this process
    loaded,         \* history: the keys load_results put in the store at construction
    save_failed,    \* history: some save_results call has failed
    last,           \* history: what the last step did
    listing,        \* list_all_promos: the rows printed and whether it raised
    max_codes,      \* search_promos argument (slicing specification)
    start_from,     \* search_promos argument (slicing specification)
    all_codes,      \* the list generate_promo_codes returned
    gpc,            \* position in the slicing specification
    response,       \* check specification: the response of the server
    now,            \* check specification: datetime.now()
    company_name,   \* check specification: what extract_company_name returned
    result,         \* check specification: what check_promo_url returned
    ppc             \* position in the check specification

vars == <<results, disk, pc, codes, i, found_count, pending, hits, loaded,
          save_failed, last, listing, max_codes, start_from, all_codes, gpc,
          response, now, company_name, result, ppc>>

scanVars == <<results, disk, pc, codes, i, found_count, pending, hits,
              loaded, save_failed, last, listing>>
genVars == <<max_codes, start_from, all_codes, gpc>>
pageVars == <<response, now, company_name, result, ppc>>

-----------------------------------------------------------------------------
(* Strings and formatting *)

Digit == <<"0", "1", "2", "3", "4", "5", "6", "7", "8", "9">>

\* f"{n:02}" and strftime's %m, %d: two digits, zero padded
Fmt02(n) == <<Digit[((n \div 10) % 10) + 1], Digit[(n % 10) + 1]>>

\* strftime's %Y for a four-digit year
Fmt04(n) == <<Digit[((n \div 1000) % 10) + 1], Digit[((n \div 100) % 10) + 1]>>
            \o Fmt02(n % 100)

\* str(n) for 0 <= n < 100: no padding
Str(n) == IF n < 10 THEN <<Digit[n + 1]>> ELSE Fmt02(n)

\* ord() of the characters that occur in codes
Ord(c) == CASE c = "0" -> 48 [] c = "1" -> 49 [] c = "2" -> 50 [] c = "3" -> 51
            [] c = "4" -> 52 [] c = "5" -> 53 [] c = "6" -> 54 [] c = "7" -> 55
            [] c = "8" -> 56 [] c = "9" -> 57 [] c = "A" -> 65 [] c = "C" -> 67
            [] c = "S" -> 83 [] c = "Z" -> 90

\* Python's < on str: lexicographic by code point, a proper prefix is smaller
RECURSIVE StrLess(_, _)
StrLess(a, b) ==
    IF b = <<>> THEN FALSE
    ELSE IF a = <<>> THEN TRUE
    ELSE IF Ord(Head(a)) # Ord(Head(b)) THEN Ord(Head(a)) < Ord(Head(b))
    ELSE StrLess(Tail(a), Tail(b))

-----------------------------------------------------------------------------
(* generate_promo_codes *)

\* codes = [f"{i:02}" for i in range(100)]
suffixes == [n \in 1..100 |-> Fmt02(n - 1)]

prefixes == << <<"A", "S", "2", "3">>, <<"C", "S", "2", "3">>,
               <<"A", "S", "2", "4">>, <<"C", "S", "2", "4">>,
               <<"A", "S", "2", "5">>, <<"C", "S", "2", "5">> >>

\* for code in codes: all_codes.append(f"{prefix}{code}"): what the inner loop
\* appends from suffix k on
RECURSIVE inner_loop(_, _)
inner_loop(prefix, k) ==
    IF k > Len(suffixes) THEN <<>>
    ELSE <<prefix \o suffixes[k]>> \o inner_loop(prefix, k + 1)

\* for prefix in prefixes: ...: what the outer loop appends from prefix p on
RECURSIVE outer_loop(_)
outer_loop(p) ==
    IF p > Len(prefixes) THEN <<>>
    ELSE inner_loop(prefixes[p], 1) \o outer_loop(p + 1)

\* a slip in the loop nesting: suffix-major order
generate_suffix_major ==
    [n \in 1..(Len(prefixes) * Len(suffixes)) |->
        prefixes[((n - 1) % Len(prefixes)) + 1]
            \o suffixes[((n - 1) \div Len(prefixes)) + 1]]

generate_promo_codes == outer_loop(1)

\* codes.index(x): the first position of x, 0 when list.index raises ValueError
index(list, x) ==
    IF \E n \in 1..Len(list) : list[n] = x
    THEN CHOOSE n \in 1..Len(list) :
            list[n] = x /\ \A m \in 1..(n - 1) : list[m] # x
    ELSE 0

\* search_promos, lines 212-221: the slice of the generated list a scan checks
slice_codes(all, maxc, start) ==
    LET st == IF start # <<>> /\ index(all, start) # 0
              THEN SubSeq(all, index(all, start), Len(all))
              ELSE all
    IN  IF maxc # 0 /\ maxc < Len(st) THEN SubSeq(st, 1, maxc) ELSE st

\* search_promos, lines 210-221: the code list of a scan
scan_codes(maxc, start) == slice_codes(generate_promo_codes, maxc, start)

-----------------------------------------------------------------------------
(* Pages: what the server can answer *)

None == ""                  \* None where a str is expected
NoDate == <<>>              \* None where a date string is expected
NoEndDate == [kind |-> "none", y |-> 0, m |-> 0, d |-> 0]

\* datetime values: [y, m, d]; a < b
DateLess(a, b) ==
    \/ a.y < b.y
    \/ a.y = b.y /\ a.m < b.m
    \/ a.y = b.y /\ a.m = b.m /\ a.d < b.d

\* datetime.now() on day d of March 2025
Time(d) == [y |-> 2025, m |-> 3, d |-> d]

\* str.lower() on the phrases and captures that occur in the pages
Lower(s) ==
    CASE s = "Fast Track" -> "fast track"
      [] s = "Mileage Plan" -> "mileage plan"
      [] s = "Promotion Ended" -> "promotion ended"
      [] s = "EXPIRED" -> "expired"
      [] s = "UW" -> "uw"
      [] s = "Washington" -> "washington"
      [] s = "Seattle" -> "seattle"
      [] s = " Boeing " -> " boeing "
      [] s = "Microsoft" -> "microsoft"
      [] s = "Amazon " -> "amazon "
      [] s = "Alaska" -> "alaska"
      [] OTHER -> s

\* str.strip()
Strip(s) ==
    CASE s = " boeing " -> "boeing"
      [] s = "amazon " -> "amazon"
      [] OTHER -> s

\* str.title()
Title(s) ==
    CASE s = "uw" -> "Uw"
      [] s = "acme" -> "Acme"
      [] s = "redcross" -> "Redcross"
      [] s = "washington" -> "Washington"
      [] s = "seattle" -> "Seattle"
      [] s = "boeing" -> "Boeing"
      [] s = "microsoft" -> "Microsoft"
      [] s = "amazon" -> "Amazon"
      [] s = "alaska" -> "Alaska"
      [] OTHER -> s

\* the regular expressions of extract_company_name, in the order of the code
email_patterns == <<"@(\\w+)\\.edu", "@(\\w+)\\.com", "@(\\w+)\\.org",
                    "university\\s+of\\s+(\\w+)", "(\\w+)\\s+university">>
company_indicators == <<"Only.*?members who work at ([^,]+)",
                        "([^,]+) discover a quicker way",
                        "([^,]+) employees", "([^,]+) staff">>

\* the text a page carries for a pattern it matches (first capture, as written)
Captured(pattern) ==
    CASE pattern = email_patterns[1] -> "UW"
      [] pattern = email_patterns[2] -> "acme"
      [] pattern = email_patterns[3] -> "redcross"
      [] pattern = email_patterns[4] -> "Washington"
      [] pattern = email_patterns[5] -> "Seattle"
      [] pattern = company_indicators[1] -> " Boeing "
      [] pattern = company_indicators[2] -> "Microsoft"
      [] pattern = company_indicators[3] -> "Amazon "
      [] pattern = company_indicators[4] -> "Alaska"

\* <script type="application/json"> blocks
Block(kind, content_cn, promo_cn, end_date) ==
    [kind |-> kind, content_cn |-> content_cn, promo_cn |-> promo_cn,
     end_date |-> end_date]

EndDate(kind, y, m, d) == [kind |-> kind, y |-> y, m |-> m, d |-> d]

Blocks == {
    Block("nostring", None, None, NoEndDate),       \* empty element: .string is None
    Block("malformed", None, None, NoEndDate),      \* not JSON
    Block("scalar", None, None, NoEndDate),         \* JSON that is no object: null, 42
    Block("object", None, None, NoEndDate),         \* JSON object without props.pageProps
    Block("props", "Acme Corp", None, NoEndDate),   \* content.company_name
    Block("props", None, "Initech", NoEndDate),     \* promo_data.company_name
    Block("props", None, None, EndDate("aware", 2024, 1, 2)),
    Block("props", None, None, EndDate("aware", 2030, 6, 15)),
    Block("props", None, None, EndDate("naive", 2024, 1, 2)),
    Block("props", None, None, EndDate("bad", 0, 0, 0)) }

MaxScripts == 2

RECURSIVE SeqsUpTo(_, _)
SeqsUpTo(S, n) ==
    IF n = 0 THEN {<<>>}
    ELSE LET shorter == SeqsUpTo(S, n - 1)
         IN  shorter \cup {Append(q, x) : q \in shorter, x \in S}

\* the date the expiration pattern captures: \d{1,2}/\d{1,2}/\d{4}, as written
PhraseDate == Str(1) \o <<"/">> \o Str(2) \o <<"/">> \o Fmt04(2024)

\* body: the phrases of response.text; ended_on: the capture of the expiration
\* pattern, NoDate when re.search finds no match (it needs "promotion ended")
Bodies ==
    {[body |-> b, ended_on |-> e] :
        b \in { {}, {"EXPIRED"}, {"Fast Track"}, {"mileage plan"},
                {"Mileage Plan", "EXPIRED"}, {"fast track", "Promotion Ended"} },
        e \in {NoDate}}
    \cup { [body |-> {"fast track", "Promotion Ended"}, ended_on |-> PhraseDate],
           [body |-> {"Promotion Ended"}, ended_on |-> PhraseDate] }

\* the patterns the visible text matches
MatchChoices == { {}, {email_patterns[2]}, {email_patterns[1], email_patterns[4]},
                  {company_indicators[1]},
                  {email_patterns[5], company_indicators[3]},
                  {company_indicators[2], company_indicators[4]} }

Pages ==
    {[body |-> b.body, ended_on |-> b.ended_on, scripts |-> s, matches |-> m] :
        b \in Bodies, s \in SeqsUpTo(Blocks, MaxScripts), m \in MatchChoices}

-----------------------------------------------------------------------------
(* extract_company_name and check_promo_url *)

\* json.loads(script.string): the exception it raises ("none": it returns)
json_loads(script) ==
    CASE script.kind = "nostring" -> "TypeError"
      [] script.kind = "malformed" -> "JSONDecodeError"
      [] OTHER -> "none"

\* 'props' in data and 'pageProps' in data['props']
has_page_props(script) == script.kind = "props"

\* what the test 'props' in data raises ("none": it answers)
props_test(script) == IF script.kind = "scalar" THEN "TypeError" ELSE "none"

\* the exception the head of a script loop body raises, lines 86-87 and 164-165
script_head(script) ==
    IF json_loads(script) # "none" THEN json_loads(script) ELSE props_test(script)

\* the except clause of both script loops: except (json.JSONDecodeError, KeyError)
script_loop_catches(exc) == exc \in {"JSONDecodeError", "KeyError"}

\* Method 1, lines 84-99: [exc, value]; value None when no script returned one
RECURSIVE method1(_, _)
method1(scripts, k) ==
    IF k > Len(scripts) THEN [exc |-> "none", value |-> None]
    ELSE LET script == scripts[k]
             exc == script_head(script)
         IN  IF exc # "none"
             THEN IF script_loop_catches(exc) THEN method1(scripts, k + 1)
                  ELSE [exc |-> exc, value |-> None]
             ELSE IF has_page_props(script) /\ script.content_cn # None
                  THEN [exc |-> "none", value |-> script.content_cn]
             ELSE IF has_page_props(script) /\ script.promo_cn # None
                  THEN [exc |-> "none", value |-> script.promo_cn]
             ELSE method1(scripts, k + 1)

\* re.findall(pattern, text_content, re.IGNORECASE) on the lower-cased text
findall(pattern, page) ==
    IF pattern \in page.matches THEN <<Lower(Captured(pattern))>> ELSE <<>>

\* Method 2, lines 111-114: the first pattern with a match, None when there is none
RECURSIVE method2(_, _)
method2(page, k) ==
    IF k > Len(email_patterns) THEN None
    ELSE LET found == findall(email_patterns[k], page)
         IN  IF found # <<>> THEN Title(found[1]) ELSE method2(page, k + 1)

\* Method 3, lines 124-127
RECURSIVE method3(_, _)
method3(page, k) ==
    IF k > Len(company_indicators) THEN None
    ELSE LET found == findall(company_indicators[k], page)
         IN  IF found # <<>> THEN Title(Strip(found[1])) ELSE method3(page, k + 1)

\* extract_company_name, lines 77-132; the outer handler (except Exception)
\* logs and returns None
extract_company_name(page) ==
    LET m1 == method1(page.scripts, 1)
    IN  IF m1.exc # "none" THEN None
        ELSE IF m1.value # None THEN m1.value
        ELSE IF method2(page, 1) # None THEN method2(page, 1)
        ELSE method3(page, 1)

\* end_datetime.strftime('%m/%d/%Y')
strftime(dt) == Fmt02(dt.m) \o <<"/">> \o Fmt02(dt.d) \o <<"/">> \o Fmt04(dt.y)

\* needle in response.text.lower()
text_contains(page, needle) == \E p \in page.body : Lower(p) = needle

\* a slip: any 200 response counts as a promo page
is_promo_page_any_200(page) == TRUE

\* line 143: the marker test
is_promo_page(page) ==
    text_contains(page, "fast track") \/ text_contains(page, "mileage plan")

\* a slip: the structured-data date overwrites the date of the phrase
expiration_overwritten(expiration_info, end_datetime) == strftime(end_datetime)

\* lines 174-175: if not expiration_info: expiration_info = strftime(...)
expiration_kept(expiration_info, end_datetime) ==
    IF expiration_info = NoDate THEN strftime(end_datetime) ELSE expiration_info

\* the body of the end-date loop for one script, lines 164-177, from the
\* state st = [exc, status, expiration_info]
end_date_step(st, script, t) ==
    LET exc == script_head(script)
        ed == script.end_date
    IN  IF exc # "none" THEN [st EXCEPT !.exc = exc]
        ELSE IF ~has_page_props(script) \/ ed.kind = "none" THEN st
        ELSE IF ed.kind = "bad" THEN st                 \* ValueError: pass
        ELSE IF ed.kind = "naive" THEN [st EXCEPT !.exc = "TypeError"]
        ELSE IF DateLess(ed, t)
             THEN [exc |-> "none", status |-> "expired",
                   expiration_info |-> expiration_kept(st.expiration_info, ed)]
             ELSE st

\* the end-date loop, lines 162-179: stops at the first exception the inner
\* handler does not catch
RECURSIVE end_date_loop(_, _, _, _)
end_date_loop(st, scripts, k, t) ==
    IF k > Len(scripts) THEN st
    ELSE LET nxt == end_date_step(st, scripts[k], t)
         IN  IF nxt.exc = "none" THEN end_date_loop(nxt, scripts, k + 1, t)
             ELSE IF script_loop_catches(nxt.exc)
                  THEN end_date_loop([nxt EXCEPT !.exc = "none"], scripts, k + 1, t)
             ELSE nxt

\* a slip: only timeouts are caught
IsTimeoutOnly(exc) == exc = "Timeout"

\* requests.exceptions.RequestException and its subclasses
IsRequestException(exc) == exc \in {"Timeout", "ConnectionError"}

base_url == "https://www.alaskaair.com/promo/"

\* urljoin(self.base_url, promo_code)
urljoin(base, promo_code) == <<base>> \o promo_code

\* datetime.isoformat()
isoformat(dt) == <<dt.y, dt.m, dt.d>>

\* a slip: the word "expired" alone marks nothing
phrase_status_ended_only(page) ==
    IF text_contains(page, "promotion ended") THEN "expired" ELSE "active"

\* the status after the phrase test, lines 147-152
phrase_status(page) ==
    IF text_contains(page, "promotion ended") \/ text_contains(page, "expired")
    THEN "expired" ELSE "active"

\* the expiration_info after the phrase test, lines 148-156
phrase_expiration(page) ==
    IF text_contains(page, "promotion ended") \/ text_contains(page, "expired")
    THEN page.ended_on ELSE NoDate

\* the dict of lines 183-192
result_dict(promo_code, cn, t, status, expiration_info) ==
    LET base == [promo_code |-> promo_code, url |-> urljoin(base_url, promo_code),
                 company_name |-> cn, found_date |-> isoformat(t),
                 status |-> status]
    IN  IF expiration_info # NoDate
        THEN [promo_code |-> base.promo_code, url |-> base.url,
              company_name |-> base.company_name, found_date |-> base.found_date,
              status |-> base.status, expiration_date |-> expiration_info]
        ELSE base

NotFound == [exc |-> "none", found |-> FALSE, value |-> <<>>]

\* check_promo_url, lines 134-206, on the answer resp of session.get at time t:
\* [exc, found, value]; exc is the exception that leaves the method
check_promo_url(promo_code, resp, t) ==
    IF resp.exc # "none"
    THEN IF IsRequestException(resp.exc) THEN NotFound
         ELSE [exc |-> resp.exc, found |-> FALSE, value |-> <<>>]
    ELSE IF resp.status_code # 200 THEN NotFound
    ELSE IF ~is_promo_page(resp.page) THEN NotFound
    ELSE LET page == resp.page
             st0 == [exc |-> "none", status |-> phrase_status(page),
                     expiration_info |-> phrase_expiration(page)]
             \* except Exception: pass keeps what the loop had set
             st == end_date_loop(st0, page.scripts, 1, t)
         IN  [exc |-> "none", found |-> TRUE,
              value |-> result_dict(promo_code, extract_company_name(page), t,
                                    st.status, st.expiration_info)]

-----------------------------------------------------------------------------
(* self.results and the results file *)

\* a dict is the sequence of its items [k, v] in insertion order
Keys(d) == {d[n].k : n \in 1..Len(d)}

\* d[key] = value
dict_set(d, key, value) ==
    IF key \in Keys(d)
    THEN [n \in 1..Len(d) |-> IF d[n].k = key THEN [k |-> key, v |-> value] ELSE d[n]]
    ELSE Append(d, [k |-> key, v |-> value])

\* d[key], for a key of d
dict_get(d, key) == d[CHOOSE n \in 1..Len(d) : d[n].k = key].v

\* JSON text of an optional string: null or the quoted string
json_of_str(x) == IF x = None THEN <<"null">> ELSE <<"str", x>>
str_of_json(j) == IF j[1] = "null" THEN None ELSE j[2]

\* JSON text of a record, and the record json.load builds from it
json_of_record(v) == [v EXCEPT !.company_name = json_of_str(v.company_name)]
record_of_json(j) == [j EXCEPT !.company_name = str_of_json(j.company_name)]

NoFile == [kind |-> "absent", members |-> <<>>]
TornFile == [kind |-> "torn", members |-> <<>>]

\* json.dump(self.results, f, indent=2, ensure_ascii=False), written in full
json_dump(d) ==
    [kind |-> "json",
     members |-> [n \in 1..Len(d) |-> [k |-> d[n].k, v |-> json_of_record(d[n].v)]]]

\* json.load(f) of a complete file
json_load(file) ==
    [n \in 1..Len(file.members) |->
        [k |-> file.members[n].k, v |-> record_of_json(file.members[n].v)]]

\* what a save_results call can meet
SaveOutcomes == {"ok", "open_fails", "write_fails", "killed"}

\* save_results, lines 58-65: the file it leaves. open(..., 'w') truncates
\* the file before json.dump writes anything.
save_results(d, file, outcome) ==
    CASE outcome = "ok" -> json_dump(d)
      [] outcome = "open_fails" -> file
      [] OTHER -> TornFile

\* load_results, lines 47-56, after self.results = {} of the constructor
load_results(file) ==
    CASE file.kind = "absent" -> <<>>
      [] file.kind = "json" -> json_load(file)
      [] OTHER -> <<>>              \* json.load raises: self.results = {}

-----------------------------------------------------------------------------
(* list_all_promos *)

\* sorted(self.results.items()): the keys are distinct, so the order is that of the keys
RECURSIVE insert_sorted(_, _)
insert_sorted(sorted, item) ==
    IF sorted = <<>> THEN <<item>>
    ELSE IF StrLess(item.k, Head(sorted).k) THEN <<item>> \o sorted
    ELSE <<Head(sorted)>> \o insert_sorted(Tail(sorted), item)

RECURSIVE sorted_items(_)
sorted_items(d) ==
    IF d = <<>> THEN <<>>
    ELSE insert_sorted(sorted_items(Tail(d)), Head(d))

\* lines 270-275: data.get('company_name', 'Unknown') is None when the key holds
\* None, and None[:33] raises TypeError
RECURSIVE print_rows(_, _)
print_rows(items, rows) ==
    IF items = <<>> THEN [rows |-> rows, raised |-> FALSE]
    ELSE IF Head(items).v.company_name = None THEN [rows |-> rows, raised |-> TRUE]
    ELSE print_rows(Tail(items),
                    Append(rows, [code |-> Head(items).k,
                                  company |-> Head(items).v.company_name,
                                  expired |-> Head(items).v.status = "expired",
                                  url |-> Head(items).v.url]))

\* list_all_promos, lines 260-275
list_all_promos(d) ==
    IF d = <<>> THEN [rows |-> <<>>, raised |-> FALSE]
    ELSE print_rows(sorted_items(d), <<>>)

-----------------------------------------------------------------------------
(* The scanner: construction, search_promos, list_all_promos, kill and restart *)

MaxCodes == 5       \* the largest max_codes a scan is started with

\* "AS2303", the fourth code generated, and a code that is not generated
AS2303 == <<"A", "S", "2", "3", "0", "3">>
ZZ0000 == <<"Z", "Z", "0", "0", "0", "0">>

\* the search_promos calls of the driver, as (max_codes, start_from); they are made
\* in any order, by whichever process is alive
ScanArgs == { <<MaxCodes, <<>> >>, <<2, AS2303>> }

\* a promo page with an organization and an end date in the past
PromoPage == [body |-> {"Fast Track"}, ended_on |-> NoDate,
              scripts |-> <<Block("props", "Acme Corp", None,
                                  EndDate("aware", 2024, 1, 2))>>,
              matches |-> {}]
\* a promo page no heuristic finds an organization in, with blocks that do not parse
NamelessPage == [body |-> {"Mileage Plan"}, ended_on |-> NoDate,
                 scripts |-> <<Block("malformed", None, None, NoEndDate),
                               Block("nostring", None, None, NoEndDate)>>,
                 matches |-> {}]
ErrorPage == [body |-> {}, ended_on |-> NoDate, scripts |-> <<>>, matches |-> {}]

Raises(exc) == [exc |-> exc, status_code |-> 0, page |-> ErrorPage]
Http(status_code, page) == [exc |-> "none", status_code |-> status_code, page |-> page]

\* what session.get can answer during a scan
Responses == { Raises("Timeout"), Raises("ConnectionError"), Http(404, PromoPage),
               Http(200, ErrorPage), Http(200, PromoPage), Http(200, NamelessPage) }

\* the answer is HTTP 200 with a marker phrase in the body
IsMarked(resp) ==
    /\ resp.exc = "none"
    /\ resp.status_code = 200
    /\ \E p \in resp.page.body : Lower(p) \in {"fast track", "mileage plan"}

\* what a step did: the code it was about, whether a fetch for it was answered with
\* a marked page ("promo") or not ("error"), and what its save met
Last(op, code, resp, save) ==
    [op |-> op, code |-> code,
     fetch |-> IF resp.exc = "none" /\ resp.status_code = 0 THEN "none"
               ELSE IF IsMarked(resp) THEN "promo" ELSE "error",
     save |-> save]
NoResponse == Http(0, ErrorPage)

\* datetime.now() during a scan: one day per search_promos call made
ScanTime == Time(Cardinality(ScanArgs \ pending))

NoListing == [rows |-> <<>>, raised |-> FALSE]

GenIdle ==
    /\ max_codes = 0 /\ start_from = <<>> /\ all_codes = <<>> /\ gpc = "off"
PageIdle ==
    /\ response = NoResponse /\ now = Time(0) /\ company_name = None
    /\ result = NotFound /\ ppc = "off"
ScanIdle ==
    /\ results = <<>> /\ disk = NoFile /\ pc = "idle" /\ codes = <<>> /\ i = 0
    /\ found_count = 0 /\ pending = ScanArgs /\ hits = {} /\ loaded = {}
    /\ save_failed = FALSE /\ last = Last("init", <<>>, NoResponse, "none")
    /\ listing = NoListing

\* the constructor, with no results file
Init == ScanIdle /\ GenIdle /\ PageIdle

\* a slip: every code is fetched again
never_checked(d, code) == FALSE

\* line 228: if code in self.results: continue
already_checked(d, code) == code \in Keys(d)

\* a slip: a save after every sixth discovery
save_every_sixth(n) == n % 6 = 0

\* line 239: if found_count % 5 == 0
save_due(n) == n % 5 = 0

\* search_promos, lines 210-225
StartScan(args) ==
    /\ pc = "idle"
    /\ args \in pending
    /\ pending' = pending \ {args}
    /\ codes' = scan_codes(args[1], args[2])
    /\ i' = 0
    /\ found_count' = 0
    /\ pc' = "scanning"
    /\ last' = Last("start", <<>>, NoResponse, "none")
    /\ listing' = NoListing
    /\ UNCHANGED <<results, disk, hits, loaded, save_failed>>
    /\ UNCHANGED genVars /\ UNCHANGED pageVars

\* the process is gone: its memory with it
Dies ==
    /\ pc' = "dead" /\ results' = <<>> /\ codes' = <<>> /\ i' = 0
    /\ found_count' = 0 /\ hits' = {} /\ loaded' = {}

\* lines 226-229: a code of the list that is already a key is passed over
SkipKnown ==
    /\ pc = "scanning"
    /\ i < Len(codes)
    /\ already_checked(results, codes[i + 1])
    /\ i' = i + 1
    /\ last' = Last("skip", codes[i + 1], NoResponse, "none")
    /\ UNCHANGED <<results, disk, pc, codes, found_count, pending, hits, loaded,
                   save_failed, listing>>
    /\ UNCHANGED genVars /\ UNCHANGED pageVars

\* lines 231-243: one code is checked; outcome is what a save would meet
CheckCode(resp, outcome) ==
    /\ pc = "scanning"
    /\ i < Len(codes)
    /\ ~already_checked(results, codes[i + 1])
    /\ LET code == codes[i + 1]
           r == check_promo_url(code, resp, ScanTime)
           stored == dict_set(results, code, r.value)
       IN  IF r.exc # "none"
           THEN /\ outcome = "ok"
                /\ pc' = "raised"
                /\ last' = Last("check", code, resp, "none")
                /\ UNCHANGED <<results, disk, codes, i, found_count, pending, hits, loaded,
                               save_failed>>
           ELSE IF ~r.found
           THEN /\ outcome = "ok"
                /\ i' = i + 1
                /\ last' = Last("check", code, resp, "none")
                /\ UNCHANGED <<results, disk, pc, codes, found_count, pending, hits, loaded,
                               save_failed>>
           ELSE IF ~save_due(found_count + 1)
           THEN /\ outcome = "ok"
                /\ results' = stored
                /\ found_count' = found_count + 1
                /\ i' = i + 1
                /\ hits' = hits \cup {code}
                /\ last' = Last("check", code, resp, "none")
                /\ UNCHANGED <<disk, pc, codes, loaded, save_failed>>
           ELSE /\ disk' = save_results(stored, disk, outcome)
                /\ save_failed' = (save_failed \/ outcome # "ok")
                /\ last' = Last("check", code, resp, outcome)
                /\ IF outcome = "killed" THEN Dies
                   ELSE /\ results' = stored
                        /\ found_count' = found_count + 1
                        /\ i' = i + 1
                        /\ hits' = hits \cup {code}
                        /\ UNCHANGED <<pc, codes, loaded>>
    /\ UNCHANGED <<pending, listing>>
    /\ UNCHANGED genVars /\ UNCHANGED pageVars

\* lines 245-246: the save at the end of the scan
EndScan(outcome) ==
    /\ pc = "scanning"
    /\ i = Len(codes)
    /\ disk' = save_results(results, disk, outcome)
    /\ save_failed' = (save_failed \/ outcome # "ok")
    /\ last' = Last("end", <<>>, NoResponse, outcome)
    /\ IF outcome = "killed" THEN Dies
       ELSE /\ pc' = "idle" /\ codes' = <<>> /\ i' = 0 /\ found_count' = 0
            /\ UNCHANGED <<results, hits, loaded>>
    /\ UNCHANGED <<pending, listing>>
    /\ UNCHANGED genVars /\ UNCHANGED pageVars

\* list_all_promos; nothing catches the TypeError it raises
ListAll ==
    /\ pc = "idle"
    /\ listing' = list_all_promos(results)
    /\ last' = Last("list", <<>>, NoResponse, "none")
    /\ pc' = IF listing'.raised THEN "list_raised" ELSE "idle"
    /\ UNCHANGED <<results, codes, i, found_count, hits, loaded>>
    /\ UNCHANGED <<disk, pending, save_failed>>
    /\ UNCHANGED genVars /\ UNCHANGED pageVars

\* the process is killed between two steps
Kill ==
    /\ pc \in {"idle", "scanning"}
    /\ Dies
    /\ last' = Last("kill", <<>>, NoResponse, "none")
    /\ UNCHANGED <<disk, pending, save_failed, listing>>
    /\ UNCHANGED genVars /\ UNCHANGED pageVars

\* a new process: the constructor, lines 23-45, with load_results
Restart ==
    /\ pc \in {"dead", "raised", "list_raised"}
    /\ results' = load_results(disk)
    /\ loaded' = Keys(results')
    /\ hits' = {}
    /\ pc' = "idle"
    /\ codes' = <<>> /\ i' = 0 /\ found_count' = 0
    /\ last' = Last("restart", <<>>, NoResponse, "none")
    /\ listing' = NoListing
    /\ UNCHANGED <<disk, pending, save_failed>>
    /\ UNCHANGED genVars /\ UNCHANGED pageVars

Next ==
    \/ \E args \in ScanArgs : StartScan(args)
    \/ SkipKnown
    \/ \E resp \in Responses, outcome \in SaveOutcomes : CheckCode(resp, outcome)
    \/ \E outcome \in SaveOutcomes : EndScan(outcome)
    \/ ListAll
    \/ Kill
    \/ Restart

Spec == Init /\ [][Next]_vars

-----------------------------------------------------------------------------
(* The head of search_promos alone: generation and slicing, for every start code *)

GenStarts == {<<>>, ZZ0000} \cup {generate_promo_codes[n] : n \in 1..Len(generate_promo_codes)}
GenMaxCodes == {0, 1, 10, 250}

InitGen ==
    /\ ScanIdle /\ PageIdle
    /\ max_codes \in GenMaxCodes
    /\ start_from \in GenStarts
    /\ all_codes = <<>>
    /\ gpc = "call"

\* line 210: codes = self.generate_promo_codes()
Generate ==
    /\ gpc = "call"
    /\ all_codes' = generate_promo_codes
    /\ gpc' = "generated"
    /\ UNCHANGED <<max_codes, start_from>>
    /\ UNCHANGED scanVars /\ UNCHANGED pageVars

\* lines 212-221
Slice ==
    /\ gpc = "generated"
    /\ codes' = slice_codes(all_codes, max_codes, start_from)
    /\ gpc' = "sliced"
    /\ UNCHANGED <<max_codes, start_from, all_codes>>
    /\ UNCHANGED <<results, disk, pc, i, found_count, pending, hits, loaded,
                   save_failed, last, listing>>
    /\ UNCHANGED pageVars

NextGen == Generate \/ Slice

SpecGen == InitGen /\ [][NextGen]_vars

-----------------------------------------------------------------------------
(* extract_company_name and check_promo_url alone, for every page *)

AS2399 == <<"A", "S", "2", "3", "9", "9">>

PageResponses ==
    {Raises("Timeout"), Raises("ConnectionError"), Http(404, PromoPage),
     Http(404, ErrorPage)}
    \cup {Http(200, p) : p \in Pages}

Nows == {Time(1), [y |-> 2031, m |-> 1, d |-> 1]}

InitPage ==
    /\ ScanIdle /\ GenIdle
    /\ response \in PageResponses
    /\ now \in Nows
    /\ company_name = None
    /\ result = NotFound
    /\ ppc = "start"

Extract ==
    /\ ppc = "start"
    /\ response.exc = "none"
    /\ company_name' = extract_company_name(response.page)
    /\ ppc' = "extracted"
    /\ UNCHANGED <<response, now, result>>
    /\ UNCHANGED scanVars /\ UNCHANGED genVars

Check ==
    /\ ppc = "start"
    /\ result' = check_promo_url(AS2399, response, now)
    /\ ppc' = "checked"
    /\ UNCHANGED <<response, now, company_name>>
    /\ UNCHANGED scanVars /\ UNCHANGED genVars

NextPage == Extract \/ Check

SpecPage == InitPage /\ [][NextPage]_vars

-----------------------------------------------------------------------------
(* Claims *)

Alive == pc \in {"idle", "scanning"}

\* the step is one of the scan loop of a process that is not killed in it
LoopStep == pc = "scanning" /\ last'.op \in {"check", "skip"}

C2_ScanKeepsRecords ==
    [][ pc = "scanning" /\ pc' \in {"scanning", "idle"}
            => /\ Len(results') >= Len(results)
               /\ \A n \in 1..Len(results) : results'[n] = results[n]
               /\ (last'.op = "check" => last'.code \notin Keys(results)) ]_vars

\* C2 witness: a scan has passed over a code whose record, with an expiration
\* date, was in the store before
C2_Witness ==
    /\ pc = "scanning" /\ last.op = "skip"
    /\ last.code \in Keys(results)
    /\ "expiration_date" \in DOMAIN dict_get(results, last.code)

\* the discoveries the file does not hold
Unflushed == Keys(results) \ Keys(load_results(disk))

\* C3: a discovery is followed by a save exactly when it makes the count of the
\* run a multiple of 5, the scan ends with a save, and as long as no save has
\* failed at most 4 discoveries are unflushed and the file written at the end of
\* a scan reads back as the store.
C3_PeriodicAndFinalSave ==
    [][ /\ (LoopStep /\ found_count' = found_count + 1
                => ((found_count' % 5 = 0) <=> (last'.save # "none")))
        /\ (LoopStep /\ found_count' = found_count /\ Alive'
                => last'.save = "none")
        /\ (pc = "scanning" /\ pc' = "idle"
                => last'.op = "end" /\ last'.save # "none")
        /\ (~save_failed' /\ Alive' => Cardinality(Unflushed') <= 4)
        /\ (~save_failed' /\ last'.op = "end"
                => disk' = json_dump(results') /\ load_results(disk') = results') ]_vars

\* C3 witness: the fifth discovery of a run has just been saved
C3_Witness ==
    /\ pc = "scanning" /\ found_count = 5
    /\ last.op = "check" /\ last.save = "ok"
    /\ disk = json_dump(results) /\ Len(results) = 5

\* C4: a save that fails, or during which the process is killed, leaves a file
\* that held a complete store as it was.
C4_FailedSaveKeepsFile ==
    [][ last'.save \in {"open_fails", "write_fails", "killed"} /\ disk.kind = "json"
            => disk' = disk ]_vars

TwoDigits(n) == <<Digit[(n \div 10) + 1], Digit[(n % 10) + 1]>>

\* C6: the list generate_promo_codes returns has |P| x 100 = 600 codes, all
\* distinct, the code at index 100*p + s being prefix p followed by s in two digits.
C6_GeneratedCodes ==
    gpc # "call"
        => /\ Len(all_codes) = Len(prefixes) * 100
           /\ Len(all_codes) = 600
           /\ Cardinality({all_codes[n] : n \in 1..Len(all_codes)}) = Len(all_codes)
           /\ \A p \in 0..(Len(prefixes) - 1), n \in 0..99 :
                    all_codes[100 * p + n + 1] = prefixes[p + 1] \o TwoDigits(n)

\* C6 witness: the list has been generated and sliced from a code in its middle
C6_Witness ==
    /\ gpc = "sliced" /\ Len(all_codes) = 600
    /\ start_from = <<"C", "S", "2", "4", "0", "7">> /\ max_codes = 10
    /\ Len(codes) = 10 /\ codes[1] = start_from

\* the organization field of the first block that parses and carries one
RECURSIVE StructuredName(_)
StructuredName(scripts) ==
    IF scripts = <<>> THEN None
    ELSE IF Head(scripts).kind = "props" /\ Head(scripts).content_cn # None
         THEN Head(scripts).content_cn
    ELSE IF Head(scripts).kind = "props" /\ Head(scripts).promo_cn # None
         THEN Head(scripts).promo_cn
    ELSE StructuredName(Tail(scripts))

\* the value of the first pattern of the list that the text matches
FirstOf(patterns, page) ==
    IF \E k \in 1..Len(patterns) : patterns[k] \in page.matches
    THEN LET k == CHOOSE k \in 1..Len(patterns) :
                    /\ patterns[k] \in page.matches
                    /\ \A j \in 1..(k - 1) : patterns[j] \notin page.matches
         IN  Title(Strip(Lower(Captured(patterns[k]))))
    ELSE None

\* C7: extract_company_name returns the value of the highest-priority heuristic
\* that matches (structured data, then email and university patterns, then
\* phrase patterns) and None only when none matches; a block that does not
\* parse matches nothing and hides nothing.
C7_ExtractionPriority ==
    ppc = "extracted"
        => company_name =
              IF StructuredName(response.page.scripts) # None
              THEN StructuredName(response.page.scripts)
              ELSE IF FirstOf(email_patterns, response.page) # None
              THEN FirstOf(email_patterns, response.page)
              ELSE FirstOf(company_indicators, response.page)

\* the record check_promo_url returned
Found == ppc = "checked" /\ result.found
HasExpiration == "expiration_date" \in DOMAIN result.value

\* the page carries a phrase of expiration
HasPhrase(page) ==
    \E p \in page.body : Lower(p) \in {"promotion ended", "expired"}

\* the structured end dates of the page before and not before the moment t
PastEndDates(page, t) ==
    {page.scripts[k].end_date : k \in
        {k \in 1..Len(page.scripts) :
            /\ page.scripts[k].kind = "props"
            /\ page.scripts[k].end_date.kind = "aware"
            /\ DateLess(page.scripts[k].end_date, t)}}
FutureEndDates(page, t) ==
    {page.scripts[k].end_date : k \in
        {k \in 1..Len(page.scripts) :
            /\ page.scripts[k].kind = "props"
            /\ page.scripts[k].end_date.kind = "aware"
            /\ ~DateLess(page.scripts[k].end_date, t)}}

\* the date as MM/DD/YYYY
MMDDYYYY(dt) ==
    TwoDigits(dt.m) \o <<"/">> \o TwoDigits(dt.d) \o <<"/">>
        \o TwoDigits(dt.y \div 100) \o TwoDigits(dt.y % 100)

\* C8: the record of a page with a captured "promotion ended ... on <date>" and a
\* structured end date in the past is expired and carries the captured string
\* as it is; a structured date, as MM/DD/YYYY, is recorded only when the phrase
\* captured none.
C8_PhraseDateFirst ==
    Found =>
        /\ (response.page.ended_on # NoDate /\ PastEndDates(response.page, now) # {}
                => /\ result.value.status = "expired"
                   /\ HasExpiration
                   /\ result.value.expiration_date = response.page.ended_on)
        /\ (HasExpiration /\ result.value.expiration_date # response.page.ended_on
                => /\ response.page.ended_on = NoDate
                   /\ \E dt \in PastEndDates(response.page, now) :
                            result.value.expiration_date = MMDDYYYY(dt))

\* C8 witness: a record for a page with both dates, which differ as strings
C8_Witness ==
    /\ Found /\ HasExpiration
    /\ response.page.ended_on = PhraseDate
    /\ \E dt \in PastEndDates(response.page, now) : MMDDYYYY(dt) # PhraseDate
    /\ result.value.expiration_date = PhraseDate

\* the case of C9: a phrase, no date captured, a structured end date in the future
C9_Case ==
    /\ Found
    /\ HasPhrase(response.page)
    /\ response.page.ended_on = NoDate
    /\ FutureEndDates(response.page, now) # {}

\* C9, as stated: in that case the record is active.
C9_AsStated == C9_Case => result.value.status = "active"

\* C9, amended: in that case the record is expired.
C9_PhraseAloneExpires == C9_Case => result.value.status = "expired"

\* C9 witness: the case, with no end date in the past and no expiration date
C9_Witness ==
    /\ C9_Case
    /\ PastEndDates(response.page, now) = {}
    /\ result.value.status = "expired" /\ ~HasExpiration

\* C10: list_all_promos raises nothing and prints one row for each record, in
\* ascending order of code.
C10_ListingCompletes ==
    last.op = "list"
        => /\ ~listing.raised
           /\ Len(listing.rows) = Len(results)
           /\ {listing.rows[n].code : n \in 1..Len(listing.rows)} = Keys(results)
           /\ \A n \in 1..(Len(listing.rows) - 1) :
                    StrLess(listing.rows[n].code, listing.rows[n + 1].code)

====
